---- MODULE Spec2Model ----
(***************************************************************************)
(* Verification model of GitSakhi: the repository-dump indexer             *)
(* (src/src/index/indexer.py), the in-memory vector store                  *)
(* (src/src/rag/vector_store.py), the Cloudflare Vectorize client          *)
(* (src/src/rag/cloudflare_vectorize.py), the indexing and query pipeline  *)
(* (src/src/rag/code_rag.py) and the knowledge graph                       *)
(* (src/src/rag/knowledge_graph.py).                                       *)
(*                                                                         *)
(* The module holds several specifications over one set of variables:      *)
(*   SpecTree   Indexer._parse_repo_structure on rendered directory trees  *)
(*   SpecChunk  Indexer.get_chunks on one file's content                   *)
(*   SpecVS     VectorStore add_chunk / delete_chunk / search              *)
(*   SpecCF     CloudflareVectorize create/delete index, insert, query,    *)
(*              and ingestion of a dump through insert_vectors             *)
(*   SpecRAG    CodeRAG.index_repository stage by stage, query_repository  *)
(*   SpecKG     CodeKnowledgeGraph add_chunk / get_related_chunks          *)
(*   SpecFiles  the containment graph over the parsed structure and        *)
(*              relatedFiles                                               *)
(*   SpecParse  Indexer.parse_content on a whole dump of sections          *)
(*   SpecQuery  the three queries interleaved with the calls that fill     *)
(*              the stores                                                 *)
(*   SpecCos    VectorStore._cosine_similarity on pairs of vectors         *)
(*   SpecKGAdd  CodeKnowledgeGraph.add_chunk, ids added again              *)
(*   SpecVSBatch VectorStore batch_add_chunks / add_chunk / delete_chunk   *)
(* Each specification initialises the variables of the others to idle      *)
(* values and leaves them unchanged.                                       *)
(***************************************************************************)
EXTENDS Integers, Sequences, FiniteSets, TLC

VARIABLES
    \* ---- Indexer (tree parsing) ----
    structure,        \* the tree section handed to _parse_repo_structure: a sequence of lines
    repo_structure,   \* Indexer.repo_structure: the ordered list of entries
    treePc,           \* "input" before parse_content, "parsed" after
    \* ---- Indexer (chunking) ----
    content,          \* file_contents[file_path] of the one file: a sequence of lines
    chunks,           \* the list get_chunks returns
    chunkPc,          \* "input" before get_chunks, "chunked" after
    \* ---- VectorStore ----
    embeddings,       \* VectorStore.embeddings: dict chunk_id -> vector
    vchunks,          \* VectorStore.chunks: dict chunk_id -> chunk payload
    order,            \* the keys of the embeddings dict in the order of their insertion: the
                      \* order in which a Python dict iterates (a key that is overwritten keeps
                      \* its place, a key that is popped and added again goes to the end)
    lastOp,           \* the last call: its name, arguments, whether it raised, its result,
                      \* and (had) whether the id it names was a key of the store when called
    \* ---- CloudflareVectorize ----
    metadata_map,     \* CloudflareVectorize.metadata_map: dict vector id -> metadata
    metadata_file,    \* what _save_metadata last wrote to the metadata file
    remoteExists,     \* whether the remote index exists
    remoteVectors,    \* ids of the vectors the remote index holds
    nextUuid,         \* number of uuid4 values drawn so far
    cfLast,           \* the last CloudflareVectorize call: its name, arguments, whether it
                      \* raised, and its result
    \* ---- Indexer.parse_content (whole dump) ----
    dump,             \* the text handed to parse_content: a sequence of sections
    file_contents,    \* Indexer.file_contents: dict path -> content
    parsePc,          \* "input" before parse_content, "parsed" after
    \* ---- CodeRAG ----
    ragPc,            \* position of index_repository: "start", "fetched", "chunking",
                      \* "embedding", "storing", "done", "failed"
    ragFiles,         \* number of 'file:' entries of chunks_dict
    ragDone,          \* processed_files
    ragChunks,        \* the list 'chunks' of index_repository
    ragBatch,         \* the loop variable i of the embedding loop
    ragBatches,       \* history: the outcome of each embedding request made, in order
    ragWrites,        \* history: the lists of chunks handed to insert_vectors
    progress,         \* history: the stages reported to progress_callback, in order
    ragLast,          \* the last step of index_repository or the last query_repository call
    \* ---- CodeKnowledgeGraph ----
    kgNodes,          \* the nodes of CodeKnowledgeGraph.graph
    kgEdges,          \* its edges: <<from, to>> -> edge_type
    kgChunks,         \* CodeKnowledgeGraph.chunks: dict chunk_id -> chunk
    kgLast            \* the last CodeKnowledgeGraph call and its result

treeVars  == <<structure, repo_structure, treePc>>
chunkVars == <<content, chunks, chunkPc>>
vsVars    == <<embeddings, vchunks, order, lastOp>>
cfVars    == <<metadata_map, metadata_file, remoteExists, remoteVectors, nextUuid, cfLast>>
parseVars == <<dump, file_contents, parsePc>>
ragVars   == <<ragPc, ragFiles, ragDone, ragChunks, ragBatch, ragBatches, ragWrites, progress,
               ragLast>>
kgVars    == <<kgNodes, kgEdges, kgChunks, kgLast>>
moreVars  == <<parseVars, ragVars, kgVars>>
vars      == <<treeVars, chunkVars, vsVars, cfVars, moreVars>>

\* ---------------------------------------------------------------------------
\* Generic helpers
\* ---------------------------------------------------------------------------
Range(s) == {s[i] : i \in 1..Len(s)}

IsPrefix(p, q) == Len(p) <= Len(q) /\ SubSeq(q, 1, Len(p)) = p

\* ===========================================================================
\* Indexer._parse_repo_structure
\* ===========================================================================
\* A line of the tree section is a sequence of tokens.  The four glyph tokens
\* stand for the 4-column strings of the dump format:
\*   "TEE" = U+251C U+2500 U+2500 ' '     "ELL" = U+2514 U+2500 U+2500 ' '
\*   "BAR" = U+2502 ' ' ' ' ' '           "SP4" = ' ' ' ' ' ' ' '
\* every other token is an entry name (names hold no '/', glyph or blank).
Glyphs == {"TEE", "ELL", "BAR", "SP4"}
Names  == {"a", "b", "c"}

MaxLines == 4
MaxDepth == 2

\* --- rendering of a directory tree (the dump wire format) ---
\* A tree is the preorder list of its nodes, each with its depth and name.
Shapes ==
    UNION {[1..n -> [d : 0..MaxDepth, n : Names]] : n \in 1..MaxLines}

\* the index of the ancestor of node i at depth k (i itself when k = depth of i)
AncestorAt(t, i, k) ==
    CHOOSE j \in 1..i : t[j].d = k /\ \A m \in (j+1)..i : t[m].d > k

TruePath(t, i) == [k \in 1..(t[i].d + 1) |-> t[AncestorAt(t, i, k - 1)].n]

WellFormed(t) ==
    /\ t[1].d = 0
    /\ \A i \in 1..(Len(t) - 1) : t[i+1].d <= t[i].d + 1
    /\ \A i, j \in 1..Len(t) : i # j => TruePath(t, i) # TruePath(t, j)

\* node j is the last child of its parent: the next node that is not deeper,
\* if any, is shallower
IsLastChild(t, j) ==
    \A m \in (j+1)..Len(t) :
        (t[m].d <= t[j].d /\ \A x \in (j+1)..(m-1) : t[x].d > t[j].d) => t[m].d < t[j].d

RenderLine(t, i) ==
    [k \in 1..t[i].d |->
        IF IsLastChild(t, AncestorAt(t, i, k - 1)) THEN "SP4" ELSE "BAR"]
    \o <<IF IsLastChild(t, i) THEN "ELL" ELSE "TEE">>
    \o <<t[i].n>>

Render(t) == [i \in 1..Len(t) |-> RenderLine(t, i)]

ValidTrees == {t \in Shapes : WellFormed(t)}

\* --- the parser ---
\* len(re.match(r'\s*', line).group()): the leading blanks of the line
RECURSIVE LeadingSpaces(_)
LeadingSpaces(line) ==
    IF line # <<>> /\ Head(line) = "SP4" THEN 4 + LeadingSpaces(Tail(line)) ELSE 0

\* name = line.strip(); name = name.replace(glyph, '') for each of the four glyphs
StripGlyphs(line) == SelectSeq(line, LAMBDA tok : tok \notin Glyphs)

\* item['path'].startswith(full_path + '/'), paths held as their lists of segments
StartsWithDir(itemPath, fullPath) ==
    Len(itemPath) > Len(fullPath) /\ IsPrefix(fullPath, itemPath)

\* the classification at the moment of the append: it looks at the entries
\* that are in self.repo_structure already
EntryType(rs, fullPath) ==
    IF \E k \in 1..Len(rs) : StartsWithDir(rs[k].path, fullPath)
    THEN "directory" ELSE "file"

\* one iteration of the loop over the lines: st = [path |-> current_path, rs |-> repo_structure]
ParseLine(st, line) ==
    LET indent      == LeadingSpaces(line)
        level       == indent \div 4
        name        == StripGlyphs(line)[1]
        currentPath == SubSeq(st.path, 1, IF level < Len(st.path) THEN level ELSE Len(st.path))
                       \o <<name>>
        fullPath    == currentPath
        parentPath  == IF level > 0
                       THEN [some |-> TRUE,  path |-> SubSeq(currentPath, 1, Len(currentPath) - 1)]
                       ELSE [some |-> FALSE, path |-> <<>>]
    IN  [path |-> currentPath,
         rs   |-> Append(st.rs, [name   |-> name,
                                 level  |-> level,
                                 path   |-> fullPath,
                                 parent |-> parentPath,
                                 type   |-> EntryType(st.rs, fullPath)])]

RECURSIVE ParseLines(_, _)
ParseLines(st, lines) ==
    IF lines = <<>> THEN st
    ELSE ParseLines(ParseLine(st, Head(lines)), Tail(lines))

ParseRepoStructure(rs, lines) == ParseLines([path |-> <<>>, rs |-> rs], lines).rs

\* --- idle values of the other components ---
ChunkIdle == content = <<>> /\ chunks = <<>> /\ chunkPc = "idle"
TreeIdle  == structure = <<>> /\ repo_structure = <<>> /\ treePc = "idle"
VSIdle    == /\ embeddings = <<>> /\ vchunks = <<>> /\ order = <<>>
             /\ lastOp = [op |-> "idle"]
CFIdle    == /\ metadata_map = <<>> /\ metadata_file = <<>> /\ remoteExists = FALSE
             /\ remoteVectors = {} /\ nextUuid = 0 /\ cfLast = [op |-> "idle"]

ParseIdle == dump = <<>> /\ file_contents = <<>> /\ parsePc = "idle"
RagIdle   == /\ ragPc = "idle" /\ ragFiles = 0 /\ ragDone = 0 /\ ragChunks = <<>>
             /\ ragBatch = 0 /\ ragBatches = <<>> /\ ragWrites = <<>> /\ progress = <<>>
             /\ ragLast = [op |-> "idle"]
KGIdle    == kgNodes = {} /\ kgEdges = <<>> /\ kgChunks = <<>> /\ kgLast = [op |-> "idle"]
MoreIdle  == ParseIdle /\ RagIdle /\ KGIdle

\* --- specification: a fresh Indexer parses the tree section of a dump ---
InitTree ==
    /\ structure \in {Render(t) : t \in ValidTrees}
    /\ repo_structure = <<>>
    /\ treePc = "input"
    /\ ChunkIdle /\ VSIdle /\ CFIdle /\ MoreIdle

ParseContent ==
    /\ treePc = "input"
    /\ repo_structure' = ParseRepoStructure(repo_structure, structure)
    /\ treePc' = "parsed"
    /\ UNCHANGED <<structure, chunkVars, vsVars, cfVars, moreVars>>

NextTree == ParseContent

SpecTree == InitTree /\ [][NextTree]_vars

\* ---------------------------------------------------------------------------
\* Claims about the parsed structure
\* ---------------------------------------------------------------------------
\* C1: after parse_content on a dump whose tree section is a rendered
\* directory tree, the paths of the entries of repo_structure are pairwise
\* distinct and every entry's level is the number of segments of its path
\* minus one.
C1_PathsUniqueLevelIsAncestorCount ==
    treePc = "parsed" =>
        /\ \A i, j \in 1..Len(repo_structure) :
               i # j => repo_structure[i].path # repo_structure[j].path
        /\ \A i \in 1..Len(repo_structure) :
               repo_structure[i].level = Len(repo_structure[i].path) - 1

\* C2: an entry has kind 'directory' exactly when some entry that appears
\* later in the tree has a path that starts with this entry's path followed
\* by '/', and kind 'file' otherwise.
C2_DirectoryIffLaterEntryBelow ==
    treePc = "parsed" =>
        \A i \in 1..Len(repo_structure) :
            /\ repo_structure[i].type \in {"directory", "file"}
            /\ repo_structure[i].type = "directory" <=>
                   \E j \in (i+1)..Len(repo_structure) :
                       StartsWithDir(repo_structure[j].path, repo_structure[i].path)

\* ===========================================================================
\* Indexer.get_chunks
\* ===========================================================================
\* A line of a file is held by what the chunker reads of it:
\*   kind  "def"    line.strip() matches  ^def\s+\w+\s*\(
\*         "class"  line.strip() matches  ^class\s+\w+   (and is no def)
\*         "blank"  line.strip() is empty
\*         "other"  any other line
\*   ind   line.startswith(' ')
MaxFileLines == 4

LineKinds == {"def", "class", "other", "blank"}
Lines     == [kind : LineKinds, ind : BOOLEAN]

FilePath == "f"

\* file_contents holds _clean_content(...) = content.strip(): the text neither
\* starts nor ends with white space, and get_chunks skips empty contents
CleanContents ==
    {c \in UNION {[1..n -> Lines] : n \in 1..MaxFileLines} :
        /\ c[1].kind # "blank" /\ ~c[1].ind
        /\ c[Len(c)].kind # "blank"}

\* 'function' if in_function else 'class_method' if in_class else 'code'
ChunkType(inF, inC) ==
    IF inF THEN "function" ELSE IF inC THEN "class_method" ELSE "code"

\* (variant: the id built from the file path and the start line alone)
CreateChunkIdWithoutEnd(filePath, lines, start, end, chunkType) ==
    [type       |-> chunkType,
     file_path  |-> filePath,
     content    |-> lines,
     start_line |-> start,
     end_line   |-> end,
     id         |-> <<filePath, start>>]

\* Indexer._create_chunk; the id f"{file_path}:{start}-{end}" is held as the triple
CreateChunk(filePath, lines, start, end, chunkType) ==
    [type       |-> chunkType,
     file_path  |-> filePath,
     content    |-> lines,
     start_line |-> start,
     end_line   |-> end,
     id         |-> <<filePath, start, end>>]

\* the file-level chunk: its id is the file path alone
FileChunk(filePath, lines) ==
    [type      |-> "file",
     file_path |-> filePath,
     content   |-> lines,
     id        |-> <<filePath>>]

ChunkerStart ==
    [cur |-> <<>>, start |-> 0, inF |-> FALSE, inC |-> FALSE, out |-> <<>>]

Flush(st, filePath, end) ==
    IF st.cur # <<>>
    THEN Append(st.out, CreateChunk(filePath, st.cur, st.start, end, ChunkType(st.inF, st.inC)))
    ELSE st.out

\* the 'Check for end of block' at the bottom of the loop body
EndOfBlock(st, filePath, i, line) ==
    IF line.kind # "blank" /\ ~line.ind
    THEN [st EXCEPT !.out = Flush(st, filePath, i),
                    !.cur = <<>>, !.inF = FALSE, !.inC = FALSE]
    ELSE st

\* (variant: a definition line starts its block without the flush of the lines gathered)
ChunkLineNoFlush(st, filePath, i, line) ==
    LET afterMatch ==
            IF line.kind = "def"
            THEN [st EXCEPT !.cur = <<line>>, !.start = i, !.inF = TRUE]
            ELSE IF line.kind = "class"
            THEN [st EXCEPT !.cur = <<line>>, !.start = i, !.inC = TRUE, !.inF = FALSE]
            ELSE [st EXCEPT !.cur = Append(st.cur, line)]
    IN  EndOfBlock(afterMatch, filePath, i, line)

\* one iteration of 'for i, line in enumerate(lines)' (i counts from 0)
ChunkLine(st, filePath, i, line) ==
    LET afterMatch ==
            IF line.kind = "def"
            THEN [st EXCEPT !.out = Flush(st, filePath, i - 1),
                            !.cur = <<line>>, !.start = i, !.inF = TRUE]
            ELSE IF line.kind = "class"
            THEN [st EXCEPT !.out = Flush(st, filePath, i - 1),
                            !.cur = <<line>>, !.start = i, !.inC = TRUE, !.inF = FALSE]
            ELSE [st EXCEPT !.cur = Append(st.cur, line)]
    IN  EndOfBlock(afterMatch, filePath, i, line)

RECURSIVE ChunkLines(_, _, _, _)
ChunkLines(st, filePath, lines, i) ==
    IF i >= Len(lines) THEN st
    ELSE ChunkLines(ChunkLine(st, filePath, i, lines[i + 1]), filePath, lines, i + 1)

\* the chunks of one file of type 'file' with non-empty content
GetChunks(filePath, lines) ==
    LET st == ChunkLines(ChunkerStart, filePath, lines, 0)
    IN  <<FileChunk(filePath, lines)>> \o Flush(st, filePath, Len(lines) - 1)

\* --- specification: get_chunks over one file ---
InitChunk ==
    /\ content \in CleanContents
    /\ chunks = <<>>
    /\ chunkPc = "input"
    /\ TreeIdle /\ VSIdle /\ CFIdle /\ MoreIdle

GetChunksCall ==
    /\ chunkPc = "input"
    /\ chunks' = GetChunks(FilePath, content)
    /\ chunkPc' = "chunked"
    /\ UNCHANGED <<content, treeVars, vsVars, cfVars, moreVars>>

NextChunk == GetChunksCall

SpecChunk == InitChunk /\ [][NextChunk]_vars

\* the chunks after the file-level one
SubChunks == SelectSeq(chunks, LAMBDA c : c.type # "file")

\* the file is exactly one function: a zero-indent def line followed only by
\* indented or blank lines
IsOneFunction(c) ==
    /\ c[1].kind = "def" /\ ~c[1].ind
    /\ \A k \in 2..Len(c) : c[k].kind = "blank" \/ (c[k].kind = "other" /\ c[k].ind)

\* C3: for a file that is exactly one function of N lines, get_chunks emits,
\* besides the file-level chunk, exactly one chunk of type 'function', and
\* that chunk has start_line 0 and end_line N-1.
C3_OneFunctionOneChunk ==
    (chunkPc = "chunked" /\ IsOneFunction(content)) =>
        LET fs == SelectSeq(SubChunks, LAMBDA c : c.type = "function")
        IN  /\ Len(fs) = 1
            /\ fs[1].start_line = 0
            /\ fs[1].end_line = Len(content) - 1

\* ===========================================================================
\* VectorStore
\* ===========================================================================
EmbeddingDim  == 2      \* config.embedding_dim of the store under test
ThresholdNum  == 7      \* config.similarity_threshold = 0.7 = ThresholdNum / ThresholdDen
ThresholdDen  == 10
MaxResults    == 10     \* config.max_results
MaxTopK       == 2      \* largest top_k a caller passes

ChunkIds == {"c1", "c2"}
Payloads == {"p", "q"}          \* the CodeChunk stored under an id, less its id and embedding

Pad(v, n) == [i \in 1..n |-> IF i <= Len(v) THEN v[i] ELSE 0]

\* vectors with whole-number norms, so that every cosine is an exact fraction
BaseVectors  == {<<1, 0>>, <<2, 0>>, <<3, 4>>, <<4, 3>>, <<0, 0>>}
GoodVectors  == {Pad(b, EmbeddingDim) : b \in BaseVectors}
WrongVectors == {<<>>, Pad(<<3, 4>>, EmbeddingDim + 1)}
Vectors      == GoodVectors \cup WrongVectors

\* top_k: None (the default) or a number
TopKs == {[none |-> TRUE, k |-> 0]} \cup {[none |-> FALSE, k |-> n] : n \in 0..MaxTopK}

RECURSIVE SumSq(_)
SumSq(v) == IF v = <<>> THEN 0 ELSE Head(v) * Head(v) + SumSq(Tail(v))

RECURSIVE Dot(_, _)
Dot(v, w) == IF v = <<>> THEN 0 ELSE Head(v) * Head(w) + Dot(Tail(v), Tail(w))

\* np.linalg.norm on the vectors above
Norm(v) == LET n == SumSq(v) IN CHOOSE r \in 0..n : r * r = n

\* (variant: the test for a zero norm left out; the quotient 0/0 is not a number)
CosineSimilarityNoZeroTest(vec1, vec2) ==
    IF Len(vec1) # Len(vec2) THEN [raised |-> TRUE, num |-> 0, den |-> 1]
    ELSE [raised |-> FALSE, num |-> Dot(vec1, vec2), den |-> Norm(vec1) * Norm(vec2)]

\* VectorStore._cosine_similarity: 0 when a norm is 0; np.dot raises ValueError
\* when the two shapes differ; else dot / (norm1 * norm2), held as num/den
CosineSimilarity(vec1, vec2) ==
    LET norm1 == Norm(vec1)
        norm2 == Norm(vec2)
    IN  IF norm1 = 0 \/ norm2 = 0 THEN [raised |-> FALSE, num |-> 0, den |-> 1]
        ELSE IF Len(vec1) # Len(vec2) THEN [raised |-> TRUE, num |-> 0, den |-> 1]
        ELSE [raised |-> FALSE, num |-> Dot(vec1, vec2), den |-> norm1 * norm2]

\* comparison of two scores num/den (den > 0)
ScoreGE(x, y) == x.num * y.den >= y.num * x.den
ScoreEQ(x, y) == x.num * y.den = y.num * x.den

Threshold == [num |-> ThresholdNum, den |-> ThresholdDen]

\* (variant: the threshold test left out)
ReachesThresholdAlways(sim) == TRUE

\* similarity >= self.config.similarity_threshold
ReachesThreshold(sim) == ScoreGE(sim, Threshold)

\* (variant: sort ascending, then reverse the list: equal keys end up reversed)
RECURSIVE InsertDescReversed(_, _)
InsertDescReversed(sorted, x) ==
    IF sorted = <<>> THEN <<x>>
    ELSE IF Head(sorted).score.num * x.score.den > x.score.num * Head(sorted).score.den
         THEN <<Head(sorted)>> \o InsertDescReversed(Tail(sorted), x)
         ELSE <<x>> \o sorted

\* list.sort(key=score, reverse=True): stable, equal keys keep their order
RECURSIVE InsertDesc(_, _)
InsertDesc(sorted, x) ==
    IF sorted = <<>> THEN <<x>>
    ELSE IF ScoreGE(Head(sorted).score, x.score)
         THEN <<Head(sorted)>> \o InsertDesc(Tail(sorted), x)
         ELSE <<x>> \o sorted

RECURSIVE SortDesc(_)
SortDesc(s) ==
    IF s = <<>> THEN <<>>
    ELSE InsertDesc(SortDesc(SubSeq(s, 1, Len(s) - 1)), s[Len(s)])

\* the loop over self.embeddings.items(): the qualifying (id, similarity) pairs
RECURSIVE Similarities(_, _, _)
Similarities(emb, keys, q) ==
    IF keys = <<>> THEN <<>>
    ELSE LET sim == CosineSimilarity(q, emb[Head(keys)])
         IN  (IF ReachesThreshold(sim) THEN <<[id |-> Head(keys), score |-> sim]>> ELSE <<>>)
             \o Similarities(emb, Tail(keys), q)

\* top_k = top_k or self.config.max_results
EffectiveTopK(topk) == IF topk.none \/ topk.k = 0 THEN MaxResults ELSE topk.k

FirstK(s, k) == SubSeq(s, 1, IF k < Len(s) THEN k ELSE Len(s))

\* VectorStore.search: [raised, result]
Search(emb, keys, q, topk) ==
    IF keys = <<>> THEN [raised |-> FALSE, result |-> <<>>]
    ELSE IF \E i \in 1..Len(keys) : CosineSimilarity(q, emb[keys[i]]).raised
         THEN [raised |-> TRUE, result |-> <<>>]
         ELSE [raised |-> FALSE,
               result |-> FirstK(SortDesc(Similarities(emb, keys, q)), EffectiveTopK(topk))]

\* dict operations
DictSet(d, k, v) == [x \in DOMAIN d \cup {k} |-> IF x = k THEN v ELSE d[x]]
DictPop(d, k)    == [x \in DOMAIN d \ {k} |-> d[x]]
KeysSet(keys, k) == IF k \in Range(keys) THEN keys ELSE Append(keys, k)
KeysPop(keys, k) == SelectSeq(keys, LAMBDA x : x # k)

\* (variant: the dimension check left out)
AddChunkRaisesNoDimCheck(emb) == emb = <<>>

\* VectorStore.add_chunk: which check raises, if any
AddChunkRaises(emb) == emb = <<>> \/ Len(emb) # EmbeddingDim

\* (variant: dict.pop(chunk_id) without a default raises KeyError on an absent key)
DeleteChunkRaisesKeyError(emb, id) == id \notin DOMAIN emb

\* VectorStore.delete_chunk: dict.pop(chunk_id, None) never raises
DeleteChunkRaises(emb, id) == FALSE

InitVS ==
    /\ embeddings = <<>>
    /\ vchunks = <<>>
    /\ order = <<>>
    /\ lastOp = [op |-> "init"]
    /\ TreeIdle /\ ChunkIdle /\ CFIdle /\ MoreIdle

AddChunk(id, emb, payload) ==
    /\ IF AddChunkRaises(emb)
       THEN /\ UNCHANGED <<embeddings, vchunks, order>>
            /\ lastOp' = [op |-> "add_chunk", id |-> id, emb |-> emb, payload |-> payload,
                          had |-> id \in DOMAIN embeddings, raised |-> TRUE]
       ELSE /\ embeddings' = DictSet(embeddings, id, emb)
            /\ vchunks' = DictSet(vchunks, id, payload)
            /\ order' = KeysSet(order, id)
            /\ lastOp' = [op |-> "add_chunk", id |-> id, emb |-> emb, payload |-> payload,
                          had |-> id \in DOMAIN embeddings, raised |-> FALSE]
    /\ UNCHANGED <<treeVars, chunkVars, cfVars, moreVars>>

DeleteChunk(id) ==
    /\ IF DeleteChunkRaises(embeddings, id)
       THEN /\ UNCHANGED <<embeddings, vchunks, order>>
            /\ lastOp' = [op |-> "delete_chunk", id |-> id,
                          had |-> id \in DOMAIN embeddings, raised |-> TRUE]
       ELSE /\ embeddings' = DictPop(embeddings, id)
            /\ vchunks' = DictPop(vchunks, id)
            /\ order' = KeysPop(order, id)
            /\ lastOp' = [op |-> "delete_chunk", id |-> id,
                          had |-> id \in DOMAIN embeddings, raised |-> FALSE]
    /\ UNCHANGED <<treeVars, chunkVars, cfVars, moreVars>>

SearchCall(q, topk) ==
    /\ LET r == Search(embeddings, order, q, topk)
       IN  lastOp' = [op |-> "search", q |-> q, topk |-> topk,
                      raised |-> r.raised, result |-> r.result]
    /\ UNCHANGED <<embeddings, vchunks, order, treeVars, chunkVars, cfVars, moreVars>>

NextVS ==
    \/ \E id \in ChunkIds, emb \in Vectors, payload \in Payloads : AddChunk(id, emb, payload)
    \/ \E id \in ChunkIds : DeleteChunk(id)
    \/ \E q \in Vectors, topk \in TopKs : SearchCall(q, topk)

SpecVS == InitVS /\ [][NextVS]_vars

\* ---------------------------------------------------------------------------
\* Claims about the VectorStore
\* ---------------------------------------------------------------------------
\* the position of an id in the insertion order of the store's keys
PosIn(keys, id) == CHOOSE i \in 1..Len(keys) : keys[i] = id

AtLeastThreshold(score) == score.num * ThresholdDen >= ThresholdNum * score.den

SearchReturned == lastOp.op = "search" /\ ~lastOp.raised

\* C4: every (id, score) pair search returns has score >= the similarity
\* threshold, the list is in non-increasing order of score, and entries of
\* equal score appear in the order in which their ids were inserted.
C4_SearchThresholdSortedStable ==
    SearchReturned =>
        LET r == lastOp.result
        IN  /\ \A i \in 1..Len(r) : AtLeastThreshold(r[i].score)
            /\ \A i, j \in 1..Len(r) :
                   i < j =>
                       /\ r[i].score.num * r[j].score.den >= r[j].score.num * r[i].score.den
                       /\ r[i].score.num * r[j].score.den = r[j].score.num * r[i].score.den
                              => PosIn(order, r[i].id) < PosIn(order, r[j].id)

\* a search that returned two entries of equal score, the first-inserted id
\* not being the alphabetically first
C4_Witness ==
    /\ SearchReturned
    /\ Len(lastOp.result) = 2
    /\ lastOp.result[1].score.num * lastOp.result[2].score.den
           = lastOp.result[2].score.num * lastOp.result[1].score.den
    /\ order = <<"c2", "c1">>

\* C5: search(query, top_k) returns at most top_k results, for every
\* requested top_k >= 0 (0 included) and every store content.
C5_AtMostTopK ==
    (SearchReturned /\ ~lastOp.topk.none) => Len(lastOp.result) <= lastOp.topk.k

\* no entry of the store has a similarity to q that reaches the threshold
NoEntryReaches(q) ==
    \A id \in DOMAIN embeddings :
        LET sim == CosineSimilarity(q, embeddings[id])
        IN  ~(~sim.raised /\ AtLeastThreshold(sim))

C7_AddChunkStep ==
    lastOp'.op = "add_chunk" =>
        /\ Len(lastOp'.emb) # EmbeddingDim =>
               /\ lastOp'.raised
               /\ embeddings' = embeddings /\ vchunks' = vchunks
        /\ (Len(lastOp'.emb) = EmbeddingDim /\ lastOp'.had) =>
               /\ ~lastOp'.raised
               /\ embeddings'[lastOp'.id] = lastOp'.emb
               /\ vchunks'[lastOp'.id] = lastOp'.payload
               /\ Cardinality(DOMAIN embeddings') = Cardinality(DOMAIN embeddings)
               /\ Cardinality(DOMAIN vchunks') = Cardinality(DOMAIN vchunks)
               /\ \A k \in DOMAIN embeddings \ {lastOp'.id} :
                      embeddings'[k] = embeddings[k] /\ vchunks'[k] = vchunks[k]

C7_AddChunkDimensionAndOverwrite == [][C7_AddChunkStep]_vars

\* an add_chunk with an embedding of the wrong length for an id the store holds
C7_Witness ==
    /\ lastOp.op = "add_chunk" /\ lastOp.raised /\ lastOp.had
    /\ lastOp.emb # <<>> /\ Len(lastOp.emb) # EmbeddingDim
    /\ lastOp.id \in DOMAIN embeddings

\* C8: delete_chunk of an id that is not in the store raises nothing and
\* leaves the store unchanged; deleting the same id twice has the effect of
\* deleting it once; no operation other than delete_chunk removes an entry.
C8_DeleteStep ==
    /\ lastOp'.op = "delete_chunk" =>
           /\ ~lastOp'.raised
           /\ lastOp'.id \notin DOMAIN embeddings' /\ lastOp'.id \notin DOMAIN vchunks'
           /\ ~lastOp'.had =>
                  embeddings' = embeddings /\ vchunks' = vchunks /\ order' = order
    /\ (lastOp.op = "delete_chunk" /\ lastOp'.op = "delete_chunk" /\ lastOp'.id = lastOp.id) =>
           embeddings' = embeddings /\ vchunks' = vchunks /\ order' = order
    /\ \A k \in (DOMAIN embeddings \ DOMAIN embeddings') \cup (DOMAIN vchunks \ DOMAIN vchunks') :
           lastOp'.op = "delete_chunk" /\ lastOp'.id = k

C8_DeleteIdempotentOnlyRemover == [][C8_DeleteStep]_vars

\* a delete_chunk of an id that was not in the (non-empty) store
C8_Witness ==
    /\ lastOp.op = "delete_chunk" /\ ~lastOp.had /\ ~lastOp.raised
    /\ embeddings # <<>>

\* ===========================================================================
\* CloudflareVectorize
\* ===========================================================================
\* The remote index is held by whether it exists and by the ids of the vectors
\* it holds.  Every remote call may fail (network, credentials): 'fault'.
MaxUuids == 4       \* uuid4 values drawn in one behaviour
MaxQueryTopK == 2   \* largest top_k passed to query_vectors

\* uuid.uuid4(): the k-th value drawn; values drawn at different times differ
Uuid(k) == k

\* the dump that is ingested: one file holding one def line, chunked by get_chunks
DumpContent == <<[kind |-> "def", ind |-> FALSE]>>
DumpChunks  == GetChunks(FilePath, DumpContent)

\* the 'metadata' dict of a chunk (indexer.py: the id is the file path for the
\* file-level chunk and file_path:start-end for a sub-chunk)
ChunkMetadata(c) == [id |-> c.id, type |-> c.type, file_path |-> c.file_path]

DumpMetadata == [i \in 1..Len(DumpChunks) |-> ChunkMetadata(DumpChunks[i])]

OtherMetadata == <<[id |-> <<"g">>, type |-> "file", file_path |-> "g"]>>

MetadataLists == {DumpMetadata, OtherMetadata}

\* the ids insert_vectors gives to n vectors when 'drawn' uuids were drawn before
NewVectorIds(drawn, n) == [i \in 1..n |-> Uuid(drawn + i)]

\* insert_vectors lines 93-103: the key under which the i-th metadata is stored
StoreIds(drawn, metas) == NewVectorIds(drawn, Len(metas))

RECURSIVE DictSetAll(_, _, _)
DictSetAll(d, keys, vals) ==
    IF keys = <<>> THEN d
    ELSE DictSetAll(DictSet(d, Head(keys), Head(vals)), Tail(keys), Tail(vals))

\* delete_index: what the remote delete does
\*   "deleted"  the index existed and is deleted
\*   "absent"   the remote raises an error whose text holds 'not found' or 'deleted'
\*   "failed"   the remote raises another error
RemoteDelete(exists, fault) ==
    IF fault THEN "failed" ELSE IF exists THEN "deleted" ELSE "absent"

\* delete_index lines 52-54 run only when the remote delete returned
DeleteClearsMetadata(outcome) == outcome = "deleted"

InitCF ==
    /\ metadata_map = <<>>
    /\ metadata_file = <<>>
    /\ remoteExists = FALSE
    /\ remoteVectors = {}
    /\ nextUuid = 0
    /\ cfLast = [op |-> "init"]
    /\ TreeIdle /\ ChunkIdle /\ VSIdle /\ MoreIdle

DeleteIndex(fault) ==
    LET outcome == RemoteDelete(remoteExists, fault)
    IN  /\ remoteExists' = IF outcome = "deleted" THEN FALSE ELSE remoteExists
        /\ remoteVectors' = IF outcome = "deleted" THEN {} ELSE remoteVectors
        /\ metadata_map' = IF DeleteClearsMetadata(outcome) THEN <<>> ELSE metadata_map
        /\ metadata_file' = IF DeleteClearsMetadata(outcome) THEN <<>> ELSE metadata_file
        /\ cfLast' = [op |-> "delete_index", existed |-> remoteExists,
                      raised |-> outcome = "failed", success |-> outcome # "failed"]
        /\ UNCHANGED <<nextUuid, treeVars, chunkVars, vsVars, moreVars>>

\* create_index: delete_index with its errors ignored, then the remote create,
\* which is rejected when the index still exists
CreateIndex(faultDelete, faultCreate) ==
    LET outcome == RemoteDelete(remoteExists, faultDelete)
        existsAfterDelete == IF outcome = "deleted" THEN FALSE ELSE remoteExists
        created == ~existsAfterDelete /\ ~faultCreate
    IN  /\ remoteExists' = (existsAfterDelete \/ created)
        /\ remoteVectors' = IF outcome = "deleted" THEN {} ELSE remoteVectors
        /\ metadata_map' = IF DeleteClearsMetadata(outcome) THEN <<>> ELSE metadata_map
        /\ metadata_file' = IF DeleteClearsMetadata(outcome) THEN <<>> ELSE metadata_file
        /\ cfLast' = [op |-> "create_index", raised |-> ~created]
        /\ UNCHANGED <<nextUuid, treeVars, chunkVars, vsVars, moreVars>>

\* insert_vectors(vectors, metadata), one vector per metadata entry
InsertVectors(metas, fault) ==
    /\ nextUuid + Len(metas) <= MaxUuids
    /\ LET ids      == StoreIds(nextUuid, metas)
           accepted == remoteExists /\ ~fault
       IN  /\ nextUuid' = nextUuid + Len(metas)
           /\ metadata_map' = DictSetAll(metadata_map, ids, metas)
           /\ metadata_file' = DictSetAll(metadata_map, ids, metas)
           /\ remoteVectors' = IF accepted THEN remoteVectors \cup Range(ids) ELSE remoteVectors
           /\ cfLast' = [op |-> "insert_vectors", metas |-> metas, raised |-> ~accepted]
    /\ UNCHANGED <<remoteExists, treeVars, chunkVars, vsVars, moreVars>>

\* metadata_map after the lookups of query_vectors
MetadataAfterPop(map, ids) == [x \in DOMAIN map \ ids |-> map[x]]
\* self.metadata_map.get(vector_id, {}) for every match: the map is read, not written
MetadataAfterLookup(map, ids) == map

\* query_vectors(query_vector, top_k): the remote returns the top_k nearest of
\* its vectors (which ones is the remote's choice); each match is looked up in
\* metadata_map, {} when the id is not there
QueryVectors(topk, fault, matches) ==
    /\ matches \subseteq remoteVectors
    /\ Cardinality(matches) = (IF topk < Cardinality(remoteVectors)
                               THEN topk ELSE Cardinality(remoteVectors))
    /\ cfLast' = IF remoteExists /\ ~fault
                 THEN [op |-> "query_vectors", raised |-> FALSE,
                       result |-> {[id |-> m,
                                    metadata |-> IF m \in DOMAIN metadata_map
                                                 THEN <<metadata_map[m]>> ELSE <<>>] :
                                   m \in matches}]
                 ELSE [op |-> "query_vectors", raised |-> TRUE, result |-> {}]
    /\ metadata_map' = IF remoteExists /\ ~fault
                       THEN MetadataAfterLookup(metadata_map, matches) ELSE metadata_map
    /\ UNCHANGED <<metadata_file, remoteExists, remoteVectors, nextUuid,
                   treeVars, chunkVars, vsVars, moreVars>>

NextCF ==
    \/ \E fault \in BOOLEAN : DeleteIndex(fault)
    \/ \E faultDelete, faultCreate \in BOOLEAN : CreateIndex(faultDelete, faultCreate)
    \/ \E metas \in MetadataLists, fault \in BOOLEAN : InsertVectors(metas, fault)
    \/ \E topk \in 0..MaxQueryTopK, fault \in BOOLEAN, matches \in SUBSET remoteVectors :
           QueryVectors(topk, fault, matches)

SpecCF == InitCF /\ [][NextCF]_vars

\* ---------------------------------------------------------------------------
\* Claims about CloudflareVectorize
\* ---------------------------------------------------------------------------
\* C9: after delete_index returns success, no vector and no metadata entry
\* remains (metadata_map is empty and persisted as empty) and a subsequent
\* query returns no result, both when the remote index existed and when it
\* was already deleted or never existed.
C9_DeleteStep ==
    /\ (cfLast'.op = "delete_index" /\ cfLast'.success) =>
           /\ remoteVectors' = {}
           /\ metadata_map' = <<>>
           /\ metadata_file' = <<>>
    /\ (cfLast.op = "delete_index" /\ cfLast.success /\ cfLast'.op = "query_vectors") =>
           cfLast'.result = {}

C9_DeleteIndexClearsAll == [][C9_DeleteStep]_vars

\* C10: ingesting the same dump a second time leaves the vector index and its
\* metadata with the same set of entry ids as after the first ingestion.
C10_ReingestStep ==
    (/\ cfLast.op = "insert_vectors" /\ ~cfLast.raised /\ cfLast.metas = DumpMetadata
     /\ cfLast'.op = "insert_vectors" /\ cfLast'.metas = DumpMetadata) =>
        /\ DOMAIN metadata_map' = DOMAIN metadata_map
        /\ DOMAIN metadata_file' = DOMAIN metadata_file
        /\ remoteVectors' = remoteVectors

C10_ReingestSameIds == [][C10_ReingestStep]_vars

\* ===========================================================================
\* CodeRAG.index_repository and CodeRAG.query_repository
\* ===========================================================================
MaxFiles  == 2      \* 'file:' entries of the repository that is indexed
MaxNodes  == 1      \* chunks a file yields besides its file-level chunk
BatchSize == 2      \* batch_size of the embedding loop (100 in the code)

\* chunk.embedding = None
NoEmbedding == <<>>

\* CodeChunk(...) as index_repository builds it; file 0 is 'repository_structure'
RagChunk(file, kind) == [file |-> file, kind |-> kind, embedding |-> NoEmbedding]

\* response.data[k].embedding of the request for the batch that starts at 'start'
ResponseEmbedding(start, k) == <<start, k>>

\* Indexer.get_all_chunks(): one 'structure' entry and one 'file:<path>' entry
\* for each of the n files; index_repository turns the first into a chunk
StructureChunks(n) == <<RagChunk(0, "structure")>>

\* the chunks of one file: the file-level chunk, then the chunks of the nodes
\* (functions, classes, imports, references) the parser found
FileChunks(file, nodes) ==
    <<RagChunk(file, "file")>> \o [k \in 1..nodes |-> RagChunk(file, "node")]

\* chunks[i:i + batch_size], as the positions (from 1) of its chunks
BatchPositions(start, total) ==
    {p \in 1..total : start < p /\ p <= start + BatchSize}

\* (variant: the embeddings of the response assigned from the last to the first)
AssignEmbeddingsReversed(cs, start, received) ==
    [p \in 1..Len(cs) |->
        IF start < p /\ p <= start + received
        THEN [cs[p] EXCEPT !.embedding = ResponseEmbedding(start, received + 1 - (p - start))]
        ELSE cs[p]]

\* for chunk, embedding_data in zip(batch, response.data): chunk.embedding = ...
AssignEmbeddings(cs, start, received) ==
    [p \in 1..Len(cs) |->
        IF start < p /\ p <= start + received
        THEN [cs[p] EXCEPT !.embedding = ResponseEmbedding(start, p - start)]
        ELSE cs[p]]

\* the number of embeddings in the response to a batch of n texts
Received(outcome, n) == IF outcome = "full" THEN n ELSE IF outcome = "short" THEN n - 1 ELSE 0

\* (variant: the loop is left after the first batch)
PcAfterBatchBreak(nextStart, total) == "storing"

\* for i in range(0, total_chunks, batch_size): the loop goes on while i < total
PcAfterBatch(nextStart, total) == IF nextStart < total THEN "embedding" ELSE "storing"

\* line 237 stands in no try block: an exception of insert_vectors leaves index_repository
StoreFailureAborts(ok) == ~ok

\* (variant: the query is embedded outside the try block)
QueryRaisesOnEmbedding(embedOk, search) == ~embedOk

\* query_repository: the whole body stands in try/except Exception
QueryRaises(embedOk, search) == FALSE

\* the value query_repository returns
QueryResult(embedOk, search) ==
    IF embedOk /\ search = "hits" THEN <<"hit">> ELSE <<>>

SearchOutcomes == {"raise", "none", "hits"}

InitRAG ==
    /\ ragPc = "start"
    /\ ragFiles = 0
    /\ ragDone = 0
    /\ ragChunks = <<>>
    /\ ragBatch = 0
    /\ ragBatches = <<>>
    /\ ragWrites = <<>>
    /\ progress = <<>>
    /\ ragLast = [op |-> "init"]
    /\ TreeIdle /\ ChunkIdle /\ VSIdle /\ CFIdle /\ ParseIdle /\ KGIdle

RagFrame == UNCHANGED <<treeVars, chunkVars, vsVars, cfVars, parseVars, kgVars>>

\* lines 108-115: the first report and the fetch
RagFetch(ok) ==
    /\ ragPc = "start"
    /\ progress' = Append(progress, "Fetching repository")
    /\ ragPc' = IF ok THEN "fetched" ELSE "failed"
    /\ ragLast' = [op |-> "fetch", raised |-> ~ok]
    /\ UNCHANGED <<ragFiles, ragDone, ragChunks, ragBatch, ragBatches, ragWrites>>
    /\ RagFrame

\* lines 117-138: parse_content, the second report, get_all_chunks, the structure chunk
RagParse(n) ==
    /\ ragPc = "fetched"
    /\ progress' = Append(progress, "Repository fetched")
    /\ ragFiles' = n
    /\ ragChunks' = StructureChunks(n)
    /\ ragPc' = IF n = 0 THEN "embedding" ELSE "chunking"
    /\ ragLast' = [op |-> "parse", raised |-> FALSE]
    /\ UNCHANGED <<ragDone, ragBatch, ragBatches, ragWrites>>
    /\ RagFrame

\* lines 140-186: one iteration of the loop over the files
RagChunkFile(nodes) ==
    /\ ragPc = "chunking"
    /\ ragChunks' = ragChunks \o FileChunks(ragDone + 1, nodes)
    /\ ragDone' = ragDone + 1
    /\ progress' = Append(progress, "Processing chunks")
    /\ ragPc' = IF ragDone + 1 < ragFiles THEN "chunking" ELSE "embedding"
    /\ ragLast' = [op |-> "chunk", raised |-> FALSE]
    /\ UNCHANGED <<ragFiles, ragBatch, ragBatches, ragWrites>>
    /\ RagFrame

\* lines 193-231: one iteration of the loop over the batches
RagEmbedBatch(outcome) ==
    /\ ragPc = "embedding"
    /\ LET n == Cardinality(BatchPositions(ragBatch, Len(ragChunks)))
       IN  /\ ragChunks' = IF outcome = "fail" THEN ragChunks
                           ELSE AssignEmbeddings(ragChunks, ragBatch, Received(outcome, n))
           /\ progress' = IF outcome = "fail" THEN progress
                          ELSE Append(progress, "Generating embeddings")
    /\ ragBatches' = Append(ragBatches, [start |-> ragBatch, outcome |-> outcome])
    /\ ragBatch' = ragBatch + BatchSize
    /\ ragPc' = PcAfterBatch(ragBatch + BatchSize, Len(ragChunks))
    /\ ragLast' = [op |-> "embed", raised |-> FALSE]
    /\ UNCHANGED <<ragFiles, ragDone, ragWrites>>
    /\ RagFrame

\* lines 233-240: the report, the write of all chunks, the last report
RagStore(ok) ==
    /\ ragPc = "storing"
    /\ ragWrites' = Append(ragWrites, ragChunks)
    /\ IF StoreFailureAborts(ok)
       THEN /\ progress' = Append(progress, "Storing vectors")
            /\ ragPc' = "failed"
       ELSE /\ progress' = progress \o <<"Storing vectors", "Vectors stored">>
            /\ ragPc' = "done"
    /\ ragLast' = [op |-> "store", writeFailed |-> ~ok, raised |-> StoreFailureAborts(ok)]
    /\ UNCHANGED <<ragFiles, ragDone, ragChunks, ragBatch, ragBatches>>
    /\ RagFrame

\* query_repository(query): embed the query, search, return the results
QueryRepository(embedOk, search) ==
    /\ ragPc \in {"start", "done", "failed"}
    /\ ragLast' = [op |-> "query_repository", embedOk |-> embedOk, search |-> search,
                   raised |-> QueryRaises(embedOk, search),
                   result |-> QueryResult(embedOk, search)]
    /\ UNCHANGED <<ragPc, ragFiles, ragDone, ragChunks, ragBatch, ragBatches, ragWrites,
                   progress>>
    /\ RagFrame

NextRAG ==
    \/ \E ok \in BOOLEAN : RagFetch(ok)
    \/ \E n \in 0..MaxFiles : RagParse(n)
    \/ \E nodes \in 0..MaxNodes : RagChunkFile(nodes)
    \/ \E outcome \in {"fail", "full", "short"} : RagEmbedBatch(outcome)
    \/ \E ok \in BOOLEAN : RagStore(ok)
    \/ \E embedOk \in BOOLEAN, search \in SearchOutcomes : QueryRepository(embedOk, search)

SpecRAG == InitRAG /\ [][NextRAG]_vars

\* ---------------------------------------------------------------------------
\* Claims about CodeRAG
\* ---------------------------------------------------------------------------
\* the number of batches the embedding loop makes over 'total' chunks
NumBatches(total) == (total + BatchSize - 1) \div BatchSize

\* C11: when the embedding request of a batch fails, the chunks of that batch
\* are left without an embedding, every later batch is still requested and
\* the pipeline goes on to the storing stage; in a batch that succeeds the
\* k-th chunk of the batch receives the k-th embedding of the response.
C11_EmbeddingBatches ==
    /\ \A b \in 1..Len(ragBatches) :
           LET start == ragBatches[b].start
           IN  /\ start = (b - 1) * BatchSize
               /\ \A p \in BatchPositions(start, Len(ragChunks)) :
                      /\ ragBatches[b].outcome = "fail" =>
                             ragChunks[p].embedding = NoEmbedding
                      /\ ragBatches[b].outcome = "full" =>
                             ragChunks[p].embedding = <<start, p - start>>
    /\ (ragBatches # <<>> /\ Len(ragBatches) < NumBatches(Len(ragChunks))) =>
           ragPc = "embedding"
    /\ (ragBatches # <<>> /\ Len(ragBatches) = NumBatches(Len(ragChunks))) =>
           \/ ragPc \in {"storing", "done"}
           \/ ragPc = "failed" /\ ragWrites # <<>>

\* the storing stage reached after a failed batch that a full batch of two followed
C11_Witness ==
    /\ ragPc = "storing"
    /\ \E b \in 1..Len(ragBatches) :
           /\ ragBatches[b].outcome = "fail"
           /\ b + 1 <= Len(ragBatches)
           /\ ragBatches[b + 1].outcome = "full"
           /\ Cardinality(BatchPositions(ragBatches[b + 1].start, Len(ragChunks))) = 2

\* C12: when a write of vectors to the index fails during ingestion, the
\* failed write is skipped and the pipeline continues to its end:
\* index_repository returns normally and reports 'Vectors stored'.
C12_WriteFailureSkipped ==
    (ragLast.op = "store" /\ ragLast.writeFailed) =>
        /\ ~ragLast.raised
        /\ ragPc = "done"
        /\ progress[Len(progress)] = "Vectors stored"

\* C13: query_repository never raises: when embedding the query fails or the
\* vector search fails, the caller receives an empty result list, the value
\* it also receives when the search succeeds with no match.
C13_QueryNeverRaises ==
    ragLast.op = "query_repository" =>
        /\ ~ragLast.raised
        /\ (~ragLast.embedOk \/ ragLast.search = "raise") => ragLast.result = <<>>
        /\ (ragLast.embedOk /\ ragLast.search = "none") => ragLast.result = <<>>

\* a query whose embedding request failed
C13_Witness ==
    /\ ragLast.op = "query_repository"
    /\ ~ragLast.embedOk
    /\ ragLast.result = <<>>

\* the place of a stage in the order of the pipeline
StageRank(stage) ==
    CASE stage = "Fetching repository"   -> 1
      [] stage = "Repository fetched"    -> 2
      [] stage = "Processing chunks"     -> 3
      [] stage = "Generating embeddings" -> 4
      [] stage = "Storing vectors"       -> 5
      [] stage = "Vectors stored"        -> 6

\* C18: the stages happen in the order fetch, parse, chunk, embed, store: no
\* embedding batch is requested before every file has been chunked, no vector
\* is written before every embedding batch has been attempted, and the
\* progress callback reports no stage after a later one.
C18_StageOrder ==
    /\ ragBatches # <<>> => (ragDone = ragFiles /\ "Repository fetched" \in Range(progress))
    /\ ragDone > 0 => "Repository fetched" \in Range(progress)
    /\ ragWrites # <<>> => Len(ragBatches) = NumBatches(Len(ragChunks))
    /\ \A i, j \in 1..Len(progress) :
           i < j => StageRank(progress[i]) <= StageRank(progress[j])

\* a run that reported all six stages
C18_Witness ==
    /\ ragPc = "done"
    /\ \A r \in 1..6 : \E i \in 1..Len(progress) : StageRank(progress[i]) = r
    /\ Len(ragBatches) >= 2

\* ======================================================================
\* CodeKnowledgeGraph (src/src/rag/knowledge_graph.py): add_chunk and
\* get_related_chunks over the directed graph of imports / references edges
\* ======================================================================

MaxKGDepth == 3     \* largest max_depth a caller passes

KGIds == {"n1", "n2", "n3"}      \* chunk ids and the names chunks import or reference

\* dependencies and references of the chunks added: None / empty, or one name each
KGTargets == {{}} \cup {{n} : n \in KGIds}

\* add_edge(u, v, edge_type=t): creates the edge or replaces its attribute
AddEdges(edges, from, targets, type) ==
    [e \in DOMAIN edges \cup {<<from, t>> : t \in targets} |->
        IF e[1] = from /\ e[2] \in targets THEN type ELSE edges[e]]

\* the nodes add_edge creates when they are not yet in the graph
EdgeNodes(from, targets) == IF targets = {} THEN {} ELSE {from} \cup targets

Successors(edges, ns) == {e[2] : e \in {x \in DOMAIN edges : x[1] \in ns}}

\* keys of nx.single_source_shortest_path(graph, source, cutoff): the nodes a breadth-first
\* search from source finds in at most cutoff levels, source included
RECURSIVE ShortestPathKeys(_, _, _, _)
ShortestPathKeys(edges, seen, frontier, cutoff) ==
    IF cutoff <= 0 \/ frontier = {} THEN seen
    ELSE LET next == Successors(edges, frontier) \ seen
         IN  ShortestPathKeys(edges, seen \cup next, next, cutoff - 1)

\* the cutoff of the search made for one value of the loop variable depth
RelatedCutoffDepth(depth) == depth
\* cutoff=depth + 1
RelatedCutoff(depth) == depth + 1

\* related, after the loop "for depth in range(max_depth)" and the discard of chunk_id
RelatedSet(edges, chunk_id, max_depth) ==
    UNION {ShortestPathKeys(edges, {chunk_id}, {chunk_id}, RelatedCutoff(depth)) :
              depth \in 0..(max_depth - 1)} \ {chunk_id}

\* list(related): every element of the set once
RECURSIVE ListOf(_)
ListOf(S) == IF S = {} THEN <<>> ELSE LET x == CHOOSE y \in S : TRUE IN <<x>> \o ListOf(S \ {x})

GetRelatedChunksResult(nodes, edges, chunk_id, max_depth) ==
    IF chunk_id \notin nodes THEN <<>> ELSE ListOf(RelatedSet(edges, chunk_id, max_depth))

InitKG ==
    /\ kgNodes = {} /\ kgEdges = <<>> /\ kgChunks = <<>>
    /\ kgLast = [op |-> "init"]
    /\ TreeIdle /\ ChunkIdle /\ VSIdle /\ CFIdle /\ ParseIdle /\ RagIdle

KGFrame == UNCHANGED <<treeVars, chunkVars, vsVars, cfVars, parseVars, ragVars>>

\* add_chunk(chunk)
KGAddChunk(id, deps, refs) ==
    /\ kgChunks' = DictSet(kgChunks, id, [dependencies |-> deps, references |-> refs])
    /\ kgNodes' = kgNodes \cup {id} \cup EdgeNodes(id, deps) \cup EdgeNodes(id, refs)
    /\ kgEdges' = AddEdges(AddEdges(kgEdges, id, deps, "imports"), id, refs, "references")
    /\ kgLast' = [op |-> "add_chunk", chunk_id |-> id]
    /\ KGFrame

\* get_related_chunks(chunk_id, max_depth)
GetRelatedChunks(chunk_id, max_depth) ==
    /\ kgLast' = [op |-> "get_related_chunks", chunk_id |-> chunk_id, max_depth |-> max_depth,
                  result |-> GetRelatedChunksResult(kgNodes, kgEdges, chunk_id, max_depth)]
    /\ UNCHANGED <<kgNodes, kgEdges, kgChunks>>
    /\ KGFrame

\* every chunk id is added once
NextKG ==
    \/ \E id \in KGIds \ DOMAIN kgChunks, deps \in KGTargets, refs \in KGTargets :
           KGAddChunk(id, deps, refs)
    \/ \E id \in KGIds, d \in 0..MaxKGDepth : GetRelatedChunks(id, d)

SpecKG == InitKG /\ [][NextKG]_vars

\* ---- claims about CodeKnowledgeGraph ----

\* a walk of exactly hops edges from one node to another exists in the graph
WalkExists(from, to, hops) ==
    \E w \in [0..hops -> kgNodes] :
        /\ w[0] = from /\ w[hops] = to
        /\ \A i \in 0..(hops - 1) : <<w[i], w[i + 1]>> \in DOMAIN kgEdges

ReachableWithin(from, max_depth) ==
    {n \in kgNodes : \E hops \in 1..max_depth : WalkExists(from, n, hops)}

RelatedReturned == kgLast.op = "get_related_chunks"

\* C14: get_related_chunks(chunk_id, max_depth) returns exactly the nodes other than chunk_id
\* that a walk of at least 1 and at most max_depth imports / references edges reaches from
\* chunk_id; chunk_id itself is never returned (also on a cycle or with a self-loop), no node
\* is returned twice, and for a chunk_id that is not in the graph the result is empty.
C14_RelatedChunksHopLimited ==
    RelatedReturned =>
        LET r == kgLast.result
            c == kgLast.chunk_id
        IN  /\ \A i, j \in 1..Len(r) : r[i] = r[j] => i = j
            /\ c \notin Range(r)
            /\ c \notin kgNodes => r = <<>>
            /\ c \in kgNodes => Range(r) = ReachableWithin(c, kgLast.max_depth) \ {c}

\* a call on a node of a cycle that returns a node and leaves out one that only a longer
\* walk reaches
C14_Witness ==
    /\ RelatedReturned
    /\ kgLast.max_depth >= 1
    /\ WalkExists(kgLast.chunk_id, kgLast.chunk_id, 2)
    /\ kgLast.result # <<>>
    /\ \E n \in kgNodes \ ({kgLast.chunk_id} \cup Range(kgLast.result)) :
           WalkExists(kgLast.chunk_id, n, kgLast.max_depth + 1)

\* ======================================================================
\* The containment graph over the path entries and relatedFiles.  The indexing
\* entry point that builds it (index_content(repo_structure, file_contents), called by
\* examples/code_rag_example.py, which reads 'related_files' from the results) is not part
\* of the sources; it is modelled from section 4.3 of the specification, over the
\* repo_structure that _parse_repo_structure produces.
\* ======================================================================

\* "all but its last segment"
ParentOfPath(path) == SubSeq(path, 1, Len(path) - 1)

\* one node per PathEntry
StructureNodes(rs) == {rs[i].path : i \in 1..Len(rs)}

\* a "contains" edge from the parent path to each entry whose parent already exists
StructureEdges(rs) ==
    {<<ParentOfPath(rs[i].path), rs[i].path>> :
        i \in {k \in 1..Len(rs) : \E j \in 1..(k - 1) : rs[j].path = ParentOfPath(rs[k].path)}}

Predecessors(edges, n) == {e[1] : e \in {x \in DOMAIN edges : x[2] = n}}

\* siblings and, for a directory, its direct children
RelatedFilesWithSelf(edges, path) ==
    Successors(edges, Predecessors(edges, path)) \cup Successors(edges, {path})
\* 1-hop only: the other children of the parent of path, and the children of path
RelatedFiles(edges, path) ==
    (Successors(edges, Predecessors(edges, path)) \ {path}) \cup Successors(edges, {path})

\* the graph is built from the parsed structure
BuildFromStructure ==
    /\ treePc = "parsed" /\ kgLast.op = "idle"
    /\ kgNodes' = StructureNodes(repo_structure)
    /\ kgEdges' = [e \in StructureEdges(repo_structure) |-> "contains"]
    /\ kgLast' = [op |-> "build"]
    /\ UNCHANGED <<treeVars, kgChunks, chunkVars, vsVars, cfVars, parseVars, ragVars>>

RelatedFilesCall(path) ==
    /\ kgLast.op # "idle"
    /\ kgLast' = [op |-> "related_files", path |-> path, result |-> RelatedFiles(kgEdges, path)]
    /\ UNCHANGED <<treeVars, kgNodes, kgEdges, kgChunks, chunkVars, vsVars, cfVars, parseVars,
                   ragVars>>

NextFiles ==
    \/ ParseContent
    \/ BuildFromStructure
    \/ \E path \in kgNodes : RelatedFilesCall(path)

SpecFiles == InitTree /\ [][NextFiles]_vars

\* ---- claims about relatedFiles ----

\* the paths of the entries whose parent is the given path
ChildrenOf(parent) ==
    {e.path : e \in {x \in Range(repo_structure) : x.parent.some /\ x.parent.path = parent}}

\* the parents that the entries of a path name
ParentsOf(path) ==
    {e.parent.path : e \in {x \in Range(repo_structure) : x.path = path /\ x.parent.some}}

RelatedFilesReturned == kgLast.op = "related_files"

\* C15: relatedFiles(path) returns exactly the other children of the parent of path plus the
\* direct children of path; for a path without children whose parent has the children
\* {A, B, path} it returns exactly {A, B}, and it never returns path itself.
C15_RelatedFilesSiblingsAndChildren ==
    RelatedFilesReturned =>
        LET p == kgLast.path
        IN  /\ kgLast.result =
                 (UNION {ChildrenOf(q) : q \in ParentsOf(p)} \ {p}) \cup ChildrenOf(p)
            /\ p \notin kgLast.result

\* a path without children whose parent has three children: the result is the other two
C15_Witness ==
    /\ RelatedFilesReturned
    /\ ChildrenOf(kgLast.path) = {}
    /\ \E q \in ParentsOf(kgLast.path) : Cardinality(ChildrenOf(q)) = 3
    /\ Cardinality(kgLast.result) = 2

\* ======================================================================
\* Indexer.parse_content over a whole dump (src/src/index/indexer.py)
\* ======================================================================
\* A text is a sequence of tokens: the tokens of a tree line (above), "NL" for a line
\* break, "COLON" for ':', "SLASH" for '/', and words.  The dump is held as the list of
\* its sections, which is what content.split(boundary) returns.

MaxSections  == 3    \* sections of a dump
MaxTreeLines == 2    \* lines of the tree section of a dump

Blanks == {"SP4", "NL"}

\* str.strip()
RECURSIVE LStrip(_)
LStrip(s) == IF s # <<>> /\ Head(s) \in Blanks THEN LStrip(Tail(s)) ELSE s
RECURSIVE RStrip(_)
RStrip(s) == IF s # <<>> /\ s[Len(s)] \in Blanks THEN RStrip(SubSeq(s, 1, Len(s) - 1)) ELSE s
Strip(s) == RStrip(LStrip(s))

\* str.split('\n')
RECURSIVE SplitLines(_)
SplitLines(s) ==
    IF \A i \in 1..Len(s) : s[i] # "NL" THEN <<s>>
    ELSE LET k == CHOOSE i \in 1..Len(s) : s[i] = "NL" /\ \A j \in 1..(i - 1) : s[j] # "NL"
         IN  <<SubSeq(s, 1, k - 1)>> \o SplitLines(SubSeq(s, k + 1, Len(s)))

\* '\n'.join(list)
RECURSIVE JoinLines(_)
JoinLines(list) ==
    IF list = <<>> THEN <<>>
    ELSE IF Len(list) = 1 THEN list[1]
    ELSE list[1] \o <<"NL">> \o JoinLines(Tail(list))

\* '/'.join(current_path): the text of an entry's path
RECURSIVE JoinPath(_)
JoinPath(segs) ==
    IF segs = <<>> THEN <<>>
    ELSE IF Len(segs) = 1 THEN <<segs[1]>>
    ELSE <<segs[1], "SLASH">> \o JoinPath(Tail(segs))

\* the test that takes a section for the structure
HasTreeGlyphAlways(section) == TRUE
\* '├──' in section or '└──' in section
HasTreeGlyph(section) == \E i \in 1..Len(section) : section[i] \in {"TEE", "ELL"}

\* the first loop: the first section with a glyph is parsed as the structure
StructureOf(sections) ==
    IF \E i \in 1..Len(sections) : HasTreeGlyph(sections[i])
    THEN LET k == CHOOSE i \in 1..Len(sections) :
                      HasTreeGlyph(sections[i]) /\ \A j \in 1..(i - 1) : ~HasTreeGlyph(sections[j])
         IN  ParseRepoStructure(<<>>, SelectSeq(SplitLines(Strip(sections[k])),
                                                LAMBDA line : Strip(line) # <<>>))
    ELSE <<>>

\* section.endswith(':')
IsHeader(section) == section # <<>> /\ section[Len(section)] = "COLON"

\* current_file = section[:-1].strip(), less one leading '/'
HeaderFile(section) ==
    LET f == Strip(SubSeq(section, 1, Len(section) - 1))
    IN  IF f # <<>> /\ Head(f) = "SLASH" THEN Tail(f) ELSE f

\* "if current_file and current_content": file_contents[current_file] = _clean_content(join)
SaveFile(st) ==
    IF st.current_file # <<>> /\ st.current_content # <<>>
    THEN DictSet(st.file_contents, st.current_file, Strip(JoinLines(st.current_content)))
    ELSE st.file_contents

\* one iteration of the second loop; current_file = <<>> stands for None and for ''
ScanSection(st, raw) ==
    LET section == Strip(raw)
    IN  IF section = <<>> THEN st
        ELSE IF IsHeader(section)
        THEN [file_contents   |-> SaveFile(st),
              current_content |-> IF st.current_file # <<>> /\ st.current_content # <<>>
                                  THEN <<>> ELSE st.current_content,
              current_file    |-> HeaderFile(section)]
        ELSE IF ~HasTreeGlyph(section) /\ st.current_file # <<>>
        THEN [st EXCEPT !.current_content = Append(st.current_content, section)]
        ELSE st

RECURSIVE ScanSections(_, _)
ScanSections(st, sections) ==
    IF sections = <<>> THEN st ELSE ScanSections(ScanSection(st, Head(sections)), Tail(sections))

FileContentsOf(sections) ==
    SaveFile(ScanSections([file_contents |-> <<>>, current_content |-> <<>>,
                           current_file |-> <<>>], sections))

\* --- the dumps parsed ---
DumpTrees == {t \in ValidTrees : Len(t) <= MaxTreeLines /\ \A i \in 1..Len(t) : t[i].n \in {"a", "b"}}

TreeSections == {JoinLines(Render(t)) : t \in DumpTrees}

\* 'a:', '/a:', 'b:', 'a/b:'
HeaderSections ==
    {<<"a", "COLON">>, <<"SLASH", "a", "COLON">>, <<"b", "COLON">>, <<"a", "SLASH", "b", "COLON">>}

\* file text: one line, two lines, a line with a colon inside, a line that draws a tree
\* branch, and a section of nothing but a line break
TextSections ==
    {<<"x">>, <<"x", "NL", "y">>, <<"x", "COLON", "y">>, <<"TEE", "x">>, <<"NL">>}

Sections == TreeSections \cup HeaderSections \cup TextSections

Dumps == UNION {[1..n -> Sections] : n \in 1..MaxSections}

InitParse ==
    /\ dump \in Dumps
    /\ file_contents = <<>>
    /\ parsePc = "input"
    /\ TreeIdle /\ ChunkIdle /\ VSIdle /\ CFIdle /\ RagIdle /\ KGIdle

\* parse_content(content) on a fresh Indexer
ParseContentDump ==
    /\ parsePc = "input"
    /\ repo_structure' = StructureOf(dump)
    /\ file_contents' = FileContentsOf(dump)
    /\ parsePc' = "parsed"
    /\ UNCHANGED <<dump, structure, treePc, chunkVars, vsVars, cfVars, ragVars, kgVars>>

NextParse == ParseContentDump

SpecParse == InitParse /\ [][NextParse]_vars

\* ---- claims about parse_content ----

Parsed == parsePc = "parsed"

\* one of the three tree-drawing glyphs occurs in the text
DrawsTree(text) == \E i \in 1..Len(text) : text[i] \in {"TEE", "ELL", "BAR"}

EndsInColon(text) == LET s == Strip(text) IN s # <<>> /\ s[Len(s)] = "COLON"

\* C16: parse_content on a dump with no boundary line (one section), no tree glyph and no
\* header raises no error and leaves repo_structure and file_contents empty.
C16_UnrecognisedDumpEmpty ==
    (Parsed /\ Len(dump) = 1 /\ ~DrawsTree(dump[1]) /\ ~EndsInColon(dump[1]))
        => repo_structure = <<>> /\ file_contents = <<>>

C16_Witness ==
    /\ Parsed /\ dump = <<<<"x", "COLON", "y">>>>
    /\ repo_structure = <<>> /\ file_contents = <<>>

\* the sections that are headers: text ending in ':'
HeaderIndices == {i \in 1..Len(dump) : EndsInColon(dump[i])}

\* the header text without the trailing colon and without a leading slash
HeaderPathOf(i) ==
    LET s == Strip(dump[i])
        f == Strip(SubSeq(s, 1, Len(s) - 1))
    IN  IF f # <<>> /\ Head(f) = "SLASH" THEN Tail(f) ELSE f

HeaderPathsDistinct == \A i, j \in HeaderIndices : HeaderPathOf(i) = HeaderPathOf(j) => i = j

\* the tree section of the dump: the first section that draws a branch
TreeSectionIndices ==
    {i \in 1..Len(dump) : /\ \E k \in 1..Len(dump[i]) : dump[i][k] \in {"TEE", "ELL"}
                          /\ \A j \in 1..(i - 1) : \A k \in 1..Len(dump[j]) :
                                 dump[j][k] \notin {"TEE", "ELL"}}

\* the text of the sections that follow header i up to the next header and are neither
\* blank nor the tree section, joined in order
Accumulated(i) ==
    LET last == IF \E j \in HeaderIndices : j > i
                THEN (CHOOSE j \in HeaderIndices : j > i /\ \A m \in HeaderIndices : m > i => j <= m) - 1
                ELSE Len(dump)
    IN  JoinLines(SelectSeq([k \in 1..(last - i) |-> IF (i + k) \in TreeSectionIndices
                                                       THEN <<>> ELSE Strip(dump[i + k])],
                            LAMBDA s : s # <<>>))

\* C17: a header section opens a new current file whose path is the header text without the
\* trailing colon and a leading slash; every following section that is not a header and is
\* not the tree section is appended, in order, to that file's content until the next
\* header; file_contents maps each header path to the content accumulated for it, and holds
\* nothing else.
C17_HeaderOpensFileContentFollows ==
    (Parsed /\ HeaderPathsDistinct) =>
        /\ \A i \in HeaderIndices :
               Accumulated(i) # <<>> =>
                   /\ HeaderPathOf(i) \in DOMAIN file_contents
                   /\ file_contents[HeaderPathOf(i)] = Accumulated(i)
        /\ DOMAIN file_contents \subseteq {HeaderPathOf(i) : i \in HeaderIndices}

\* the paths of the entries of repo_structure whose type is 'file'
FileEntryPaths == {JoinPath(e.path) : e \in {x \in Range(repo_structure) : x.type = "file"}}

\* C20: after parse_content, file_contents has exactly one entry for every entry of
\* repo_structure whose type is 'file', files whose section is empty included, and no entry
\* for any other path (stated for the dumps that hold one header per file entry).
C20_OneContentPerFileEntry ==
    (Parsed /\ HeaderPathsDistinct /\ {HeaderPathOf(i) : i \in HeaderIndices} = FileEntryPaths)
        => DOMAIN file_contents = FileEntryPaths

\* ======================================================================
\* The stores and the three queries side by side: VectorStore.search,
\* CloudflareVectorize.query_vectors and CodeRAG.query_repository interleaved with the calls
\* that fill the stores
\* ======================================================================

QueryVectorsOf == {Pad(<<1, 0>>, EmbeddingDim), Pad(<<3, 4>>, EmbeddingDim)}

InitQuery ==
    /\ embeddings = <<>> /\ vchunks = <<>> /\ order = <<>> /\ lastOp = [op |-> "init"]
    /\ metadata_map = <<>> /\ metadata_file = <<>> /\ remoteExists = FALSE
    /\ remoteVectors = {} /\ nextUuid = 0 /\ cfLast = [op |-> "init"]
    /\ ragPc = "start" /\ ragFiles = 0 /\ ragDone = 0 /\ ragChunks = <<>> /\ ragBatch = 0
    /\ ragBatches = <<>> /\ ragWrites = <<>> /\ progress = <<>> /\ ragLast = [op |-> "init"]
    /\ kgNodes = {} /\ kgEdges = <<>> /\ kgChunks = <<>> /\ kgLast = [op |-> "init"]
    /\ TreeIdle /\ ChunkIdle /\ ParseIdle

NextQuery ==
    \/ \E emb \in QueryVectorsOf : AddChunk("c1", emb, "p")
    \/ CreateIndex(FALSE, FALSE)
    \/ InsertVectors(DumpMetadata, FALSE)
    \/ KGAddChunk("n1", {}, {"n2"})
    \/ \E q \in QueryVectorsOf : SearchCall(q, [none |-> TRUE, k |-> 0])
    \/ \E topk \in 0..1, fault \in BOOLEAN, matches \in SUBSET remoteVectors :
           QueryVectors(topk, fault, matches)
    \/ \E embedOk \in BOOLEAN, search \in SearchOutcomes : QueryRepository(embedOk, search)

SpecQuery == InitQuery /\ [][NextQuery]_vars

\* ---- claim about the queries ----

\* the stored vectors, the metadata map (in memory and on file), the remote index, the graph
Stored == <<embeddings, vchunks, order, metadata_map, metadata_file, remoteExists,
            remoteVectors, nextUuid, kgNodes, kgEdges, kgChunks>>

\* the step is a call of one of the three queries
QueryStep ==
    \/ lastOp' # lastOp /\ lastOp'.op = "search"
    \/ cfLast' # cfLast /\ cfLast'.op = "query_vectors"
    \/ ragLast' # ragLast /\ ragLast'.op = "query_repository"

\* C19: a query changes no stored state: after query_repository, query_vectors or search
\* the stored vectors, the metadata map and the graph are what they were before the call
\* (so queries cannot affect one another's results, in whatever order they run).
C19_QueriesChangeNoStoredState == [][QueryStep => UNCHANGED Stored]_vars

\* all three queries have answered on stores that hold vectors, metadata and edges
C19_Witness ==
    /\ lastOp.op = "search" /\ ~lastOp.raised /\ lastOp.result # <<>>
    /\ cfLast.op = "query_vectors" /\ ~cfLast.raised /\ cfLast.result # {}
    /\ ragLast.op = "query_repository" /\ ragLast.result # <<>>
    /\ embeddings # <<>> /\ metadata_map # <<>> /\ kgEdges # <<>>

\* ======================================================================
\* VectorStore._cosine_similarity on its own (src/src/rag/vector_store.py)
\* ======================================================================

\* the vectors compared: those of the store, more directions (negative components too),
\* and vectors of another length
CosineVectors ==
    Vectors \cup {Pad(b, EmbeddingDim) : b \in {<<0, 1>>, <<-3, 4>>, <<0, -2>>, <<5, 12>>, <<-4, -3>>}}

\* _cosine_similarity(vec1, vec2)
CosineCall(vec1, vec2) ==
    /\ LET r == CosineSimilarity(vec1, vec2)
       IN  lastOp' = [op |-> "cosine", vec1 |-> vec1, vec2 |-> vec2,
                      raised |-> r.raised, num |-> r.num, den |-> r.den]
    /\ UNCHANGED <<embeddings, vchunks, order, treeVars, chunkVars, cfVars, moreVars>>

NextCos == \E vec1, vec2 \in CosineVectors : CosineCall(vec1, vec2)

SpecCos == InitVS /\ [][NextCos]_vars

\* ---- claim about the cosine similarity ----

IsZeroVector(v) == \A i \in 1..Len(v) : v[i] = 0

Chunked == chunkPc = "chunked"

\* the lines i..j of the file, counted from 0
FileLines(i, j) == SubSeq(content, i + 1, j + 1)

\* C22: every sub-chunk spans the lines gathered in it: start_line <= end_line, its content
\* has end_line - start_line + 1 lines and is the file's lines start_line..end_line, and its
\* id is '{file_path}:{start_line}-{end_line}'.
C22_SubChunkSpansItsLines ==
    Chunked =>
        \A k \in 1..Len(SubChunks) :
            LET c == SubChunks[k]
            IN  /\ c.start_line <= c.end_line
                /\ Len(c.content) = c.end_line - c.start_line + 1
                /\ c.content = FileLines(c.start_line, c.end_line)
                /\ c.id = <<c.file_path, c.start_line, c.end_line>>

IsDefinition(line) == line.kind \in {"def", "class"}

\* a non-blank line with zero indentation
IsDedent(line) == line.kind # "blank" /\ ~line.ind

\* the last line (from 0) of the block that the definition line i opens: the line before
\* the next definition line, or the next dedent line itself, or the last line of the file
BlockEnd(i) ==
    IF \E j \in (i + 1)..(Len(content) - 1) : IsDefinition(content[j + 1]) \/ IsDedent(content[j + 1])
    THEN LET j == CHOOSE j \in (i + 1)..(Len(content) - 1) :
                      /\ IsDefinition(content[j + 1]) \/ IsDedent(content[j + 1])
                      /\ \A m \in (i + 1)..(j - 1) :
                             ~(IsDefinition(content[m + 1]) \/ IsDedent(content[m + 1]))
         IN  IF IsDefinition(content[j + 1]) THEN j - 1 ELSE j
    ELSE Len(content) - 1

\* C23: a def line opens a block with context function and a class line one with context
\* class; the block of a definition line and the lines after it (up to the next definition,
\* a dedent line, or the end of the file) is emitted as one chunk of type 'function' (def)
\* or 'class_method' (class); a chunk that holds no definition line has type 'code'.
C23_BlocksByContext ==
    Chunked =>
        /\ \A i \in 0..(Len(content) - 1) :
               IsDefinition(content[i + 1]) =>
                   \E k \in 1..Len(SubChunks) :
                       /\ SubChunks[k].content = FileLines(i, BlockEnd(i))
                       /\ SubChunks[k].end_line = BlockEnd(i)
                       /\ SubChunks[k].type =
                              (IF content[i + 1].kind = "def" THEN "function" ELSE "class_method")
        /\ \A k \in 1..Len(SubChunks) :
               (\A m \in 1..Len(SubChunks[k].content) : ~IsDefinition(SubChunks[k].content[m]))
                   => SubChunks[k].type = "code"

\* the contents of a list of chunks, one after the other
RECURSIVE ContentsInOrder(_)
ContentsInOrder(cs) == IF cs = <<>> THEN <<>> ELSE Head(cs).content \o ContentsInOrder(Tail(cs))

\* C28: the sub-chunks of a file, in emission order, hold every line of the file exactly
\* once and in file order.
C28_SubChunksPartitionFile ==
    Chunked => ContentsInOrder(SubChunks) = content

\* a file with a definition inside that was cut into at least three sub-chunks
C28_Witness ==
    /\ Chunked /\ Len(SubChunks) >= 3
    /\ \E i \in 2..Len(content) : IsDefinition(content[i])
    /\ ContentsInOrder(SubChunks) = content

\* C29: within one file no two sub-chunks have the same id, the end_line of successive
\* sub-chunks strictly increases, and no sub-chunk has the id of the file-level chunk.
C29_SubChunkIdsDistinct ==
    Chunked =>
        /\ \A j, k \in 1..Len(SubChunks) : SubChunks[j].id = SubChunks[k].id => j = k
        /\ \A k \in 1..(Len(SubChunks) - 1) : SubChunks[k].end_line < SubChunks[k + 1].end_line
        /\ \A k \in 1..Len(SubChunks) : SubChunks[k].id # chunks[1].id

\* two sub-chunks share their start_line and still differ in id
C29_Witness ==
    /\ Chunked
    /\ \E j, k \in 1..Len(SubChunks) :
           /\ j # k /\ SubChunks[j].start_line = SubChunks[k].start_line
           /\ SubChunks[j].id # SubChunks[k].id

\* C24: index_repository never submits to the vector index a chunk that has no embedding:
\* the chunks of a failed embedding batch, and those a short response left without one, are
\* left out of the store step, and every chunk that received an embedding is submitted.
C24_OnlyEmbeddedChunksStored ==
    \A w \in 1..Len(ragWrites) :
        /\ \A p \in 1..Len(ragWrites[w]) : ragWrites[w][p].embedding # NoEmbedding
        /\ \A p \in 1..Len(ragChunks) :
               ragChunks[p].embedding # NoEmbedding => ragChunks[p] \in Range(ragWrites[w])

\* C25: if insert_vectors fails, metadata_map and the metadata file are what they were
\* before the call; hence, after any calls of insert_vectors, delete_index and create_index,
\* every id in metadata_map is the id of a vector the remote index accepted.
C25_FailedInsertStep ==
    /\ (nextUuid' # nextUuid /\ cfLast'.op = "insert_vectors" /\ cfLast'.raised) =>
           /\ metadata_map' = metadata_map
           /\ metadata_file' = metadata_file
    /\ DOMAIN metadata_map' \subseteq remoteVectors'

C25_FailedInsertLeavesMetadata == [][C25_FailedInsertStep]_vars

\* --- specification: chunks are added and added again under the same id ---
ReAddIds == {"n1", "n2"}

NextKGAdd == \E id \in ReAddIds, deps \in KGTargets, refs \in KGTargets : KGAddChunk(id, deps, refs)

SpecKGAdd == InitKG /\ [][NextKGAdd]_vars

OutNeighbours(id) == {e[2] : e \in {x \in DOMAIN kgEdges : x[1] = id}}

\* C26: after any add_chunk calls every id of the chunks map is a node of the graph and the
\* outgoing edges of each chunk id are exactly the dependencies and references of the chunk
\* now stored under it: adding a chunk again with other dependencies or references leaves
\* no edge of the earlier version.
C26_EdgesMatchStoredChunk ==
    \A id \in DOMAIN kgChunks :
        /\ id \in kgNodes
        /\ OutNeighbours(id) = kgChunks[id].dependencies \cup kgChunks[id].references

\* C30: every id that get_related_chunks returns is the id of a chunk added with add_chunk
\* (a key of the chunks map), so get_chunk_content of a returned id is never None.
C30_RelatedAreStoredChunks ==
    RelatedReturned => Range(kgLast.result) \subseteq DOMAIN kgChunks

\* ======================================================================
\* VectorStore.batch_add_chunks (src/src/rag/vector_store.py lines 76-79) with add_chunk
\* and delete_chunk
\* ======================================================================

MaxBatch == 2       \* chunks handed to one batch_add_chunks call

\* the chunks of a batch: an embedding of the right length, one too long, none at all
BatchChunks ==
    [id : ChunkIds,
     emb : {Pad(<<3, 4>>, EmbeddingDim), Pad(<<3, 4>>, EmbeddingDim + 1), <<>>},
     payload : {"p"}]

BatchLists == UNION {[1..n -> BatchChunks] : n \in 1..MaxBatch}

BatchStart(emb, chs, keys) ==
    [embeddings |-> emb, chunks |-> chs, order |-> keys, raised |-> FALSE, failedAt |-> 0]

\* (variant: every chunk is validated before the first is inserted)
RECURSIVE BatchAddValidatedFirst(_, _, _)
BatchAddValidatedFirst(st, list, i) ==
    IF \E k \in i..Len(list) : AddChunkRaises(list[k].emb)
    THEN [st EXCEPT !.raised = TRUE,
                    !.failedAt = CHOOSE k \in i..Len(list) :
                                     /\ AddChunkRaises(list[k].emb)
                                     /\ \A m \in i..(k - 1) : ~AddChunkRaises(list[m].emb)]
    ELSE IF i > Len(list) THEN st
    ELSE BatchAddValidatedFirst(
             [st EXCEPT !.embeddings = DictSet(st.embeddings, list[i].id, list[i].emb),
                        !.chunks = DictSet(st.chunks, list[i].id, list[i].payload),
                        !.order = KeysSet(st.order, list[i].id)], list, i + 1)

\* for chunk in chunks: self.add_chunk(chunk) -- the first add_chunk that raises ends the
\* loop and the call
RECURSIVE BatchAdd(_, _, _)
BatchAdd(st, list, i) ==
    IF i > Len(list) THEN st
    ELSE IF AddChunkRaises(list[i].emb) THEN [st EXCEPT !.raised = TRUE, !.failedAt = i]
    ELSE BatchAdd([st EXCEPT !.embeddings = DictSet(st.embeddings, list[i].id, list[i].emb),
                             !.chunks = DictSet(st.chunks, list[i].id, list[i].payload),
                             !.order = KeysSet(st.order, list[i].id)], list, i + 1)

\* batch_add_chunks(chunks)
BatchAddChunks(list) ==
    /\ LET st == BatchAdd(BatchStart(embeddings, vchunks, order), list, 1)
       IN  /\ embeddings' = st.embeddings
           /\ vchunks' = st.chunks
           /\ order' = st.order
           /\ lastOp' = [op |-> "batch_add_chunks", chunks |-> list, raised |-> st.raised,
                         failedAt |-> st.failedAt, had |-> DOMAIN embeddings]
    /\ UNCHANGED <<treeVars, chunkVars, cfVars, moreVars>>

NextVSBatch ==
    \/ \E c \in BatchChunks : AddChunk(c.id, c.emb, c.payload)
    \/ \E id \in ChunkIds : DeleteChunk(id)
    \/ \E list \in BatchLists : BatchAddChunks(list)

SpecVSBatch == InitVS /\ [][NextVSBatch]_vars

\* ---- claim about the two maps of the store ----

\* an embedding that add_chunk refuses: none, or not of the configured length
Refused(emb) == emb = <<>> \/ Len(emb) # EmbeddingDim

\* the index of the first refused chunk of a list, Len + 1 when there is none
FirstRefused(list) ==
    IF \E k \in 1..Len(list) : Refused(list[k].emb)
    THEN CHOOSE k \in 1..Len(list) :
             Refused(list[k].emb) /\ \A m \in 1..(k - 1) : ~Refused(list[m].emb)
    ELSE Len(list) + 1

\* the embedding the chunks 1..n of a list leave under an id, if one of them has the id
LastWithId(list, n, id) ==
    CHOOSE k \in 1..n : list[k].id = id /\ \A m \in (k + 1)..n : list[m].id # id

C27_Step ==
    /\ DOMAIN embeddings' = DOMAIN vchunks'
    /\ \A id \in DOMAIN embeddings' : Len(embeddings'[id]) = EmbeddingDim
    /\ (lastOp' # lastOp /\ lastOp'.op = "batch_add_chunks") =>
           LET list == lastOp'.chunks
               n    == FirstRefused(list) - 1
               ids  == {list[k].id : k \in 1..n}
           IN  /\ lastOp'.raised = (n < Len(list))
               /\ DOMAIN embeddings' = DOMAIN embeddings \cup ids
               /\ \A id \in DOMAIN embeddings' :
                      embeddings'[id] = IF id \in ids THEN list[LastWithId(list, n, id)].emb
                                        ELSE embeddings[id]

\* C27: after any add_chunk, batch_add_chunks and delete_chunk calls, failing ones included,
\* the embeddings map and the chunks map have the same keys and every stored embedding has
\* length embedding_dim; a batch_add_chunks that fails on its k-th chunk leaves the first
\* k-1 chunks inserted and the others not inserted.
C27_MapsAgreeBatchStopsAtFailure == [][C27_Step]_vars

\* a batch failed on its second chunk and its first chunk, new to the store, is stored
C27_Witness ==
    /\ lastOp.op = "batch_add_chunks" /\ lastOp.raised /\ lastOp.failedAt = 2
    /\ lastOp.chunks[1].id \notin lastOp.had
    /\ lastOp.chunks[1].id \in DOMAIN embeddings
    /\ lastOp.chunks[2].id \notin DOMAIN embeddings

====
